---- MODULE Spec2Model ----
(***************************************************************************)
(* Model of the Voice Clone Studio speech service (geminiService.ts):      *)
(* the base64 / PCM / WAV byte conversions and the session orchestration   *)
(* of generateAudioFromText, one promise per request;                      *)
(* and of its caller, the App component (App.tsx): file selection, the     *)
(* analysis timer, the Generate button and the settlement of its request.  *)
(*                                                                         *)
(* Strings that the code indexes character by character (base64 text,      *)
(* binary strings) are sequences of character codes.  Byte buffers are     *)
(* sequences of 0..255.                                                    *)
(***************************************************************************)
EXTENDS Integers, Sequences, FiniteSets, TLC

\* ------------------------------------------------------------- bounds
\* Inbound messages the transport delivers, summed over the sessions.
MaxMsgs == 2
\* Transport error events, summed over the sessions.
MaxErrors == 1
\* Longest Float32Array handed to createBlob by the pure-function runs.
MaxSamples == 2
\* Sample values are multiples of 1 / 2^SampleBits (exact as float32).
SampleBits == 2
\* Longest PCM payload handed to pcmToWav by the pure-function runs.
MaxPayload == 3
\* Most analysis timers pending at once in the UI.
MaxTimers == 2
\* Most calls of handleGenerateAudio suspended at their await at once.
MaxAwaiting == 2

\* ------------------------------------------------------------- numbers
Pow2(n) == 2 ^ n

\* Integer part of n / d, rounding toward zero (d > 0).
TruncDiv(n, d) == IF n >= 0 THEN n \div d ELSE -((-n) \div d)

\* ------------------------------------------------------------- base64
AsciiWhitespace == {9, 10, 12, 13, 32}

\* The base64 alphabet: A-Z, a-z, 0-9, + (43), / (47).
IsB64Char(c) ==
    \/ c \in 65..90
    \/ c \in 97..122
    \/ c \in 48..57
    \/ c = 43
    \/ c = 47

B64Index(c) ==
    IF c \in 65..90 THEN c - 65
    ELSE IF c \in 97..122 THEN c - 97 + 26
    ELSE IF c \in 48..57 THEN c - 48 + 52
    ELSE IF c = 43 THEN 62
    ELSE 63

B64Char(i) ==
    IF i < 26 THEN 65 + i
    ELSE IF i < 52 THEN 97 + (i - 26)
    ELSE IF i < 62 THEN 48 + (i - 52)
    ELSE IF i = 62 THEN 43
    ELSE 47

StripWhitespace(s) == SelectSeq(s, LAMBDA c : c \notin AsciiWhitespace)

\* Removes one or two trailing "=" (code 61) when the length is a multiple of four.
StripPadding(s) ==
    IF Len(s) > 0 /\ Len(s) % 4 = 0 /\ s[Len(s)] = 61
    THEN IF s[Len(s) - 1] = 61
         THEN SubSeq(s, 1, Len(s) - 2)
         ELSE SubSeq(s, 1, Len(s) - 1)
    ELSE s

\* The code's failure value: atob throws InvalidCharacterError.
Throws == <<-1>>

\* window.atob (forgiving-base64 decode): a binary string, or Throws.
atob(data) ==
    LET s == StripPadding(StripWhitespace(data))
        n == Len(s)
        outLen == (n \div 4) * 3 + (IF n % 4 = 0 THEN 0 ELSE (n % 4) - 1)
        Sextet(k) == IF k <= n THEN B64Index(s[k]) ELSE 0
        Group(g) == Sextet(4 * g + 1) * 262144 + Sextet(4 * g + 2) * 4096
                    + Sextet(4 * g + 3) * 64 + Sextet(4 * g + 4)
        ByteAt(i) == LET g == (i - 1) \div 3
                         j == (i - 1) % 3
                     IN  (Group(g) \div Pow2(8 * (2 - j))) % 256
    IN  IF n % 4 = 1 \/ \E k \in 1..n : ~IsB64Char(s[k])
        THEN Throws
        ELSE [i \in 1..outLen |-> ByteAt(i)]

\* window.btoa on a binary string (every code is below 256 here).
btoa(binary) ==
    LET n == Len(binary)
        groups == (n + 2) \div 3
        Octet(k) == IF k <= n THEN binary[k] ELSE 0
        Group(g) == Octet(3 * g + 1) * 65536 + Octet(3 * g + 2) * 256 + Octet(3 * g + 3)
        CharAt(i) == LET g == (i - 1) \div 4
                         j == (i - 1) % 4
                     IN  IF 3 * g + j > n
                         THEN 61
                         ELSE B64Char((Group(g) \div Pow2(6 * (3 - j))) % 64)
    IN  [i \in 1..(4 * groups) |-> CharAt(i)]

\* decode(base64): the bytes of atob's binary string; a throw propagates.
decode(base64) ==
    LET binaryString == atob(base64)
    IN  IF binaryString = Throws
        THEN Throws
        ELSE [i \in 1..Len(binaryString) |-> binaryString[i]]

\* encode(bytes): btoa of the binary string built from the bytes.
encode(bytes) == btoa([i \in 1..Len(bytes) |-> bytes[i]])

\* ------------------------------------------------------------- floats
\* A float sample is <<"num", n>> for the value n / SampleDen, <<"inf", 1>>,
\* <<"inf", -1>> or <<"nan", 0>>.  Multiples of 1 / SampleDen and their
\* products with 32767 are exact in float32 / float64 at these magnitudes.
SampleDen == Pow2(SampleBits)

Num(n) == <<"num", n>>
NaN == <<"nan", 0>>
PosInf == <<"inf", 1>>
NegInf == <<"inf", -1>>

IsNum(x) == x[1] = "num"

\* Math.min(a, b) and Math.max(a, b) with a a finite number: NaN is contagious.
MathMin(a, b) ==
    IF b = NaN THEN NaN
    ELSE IF b = PosInf THEN a
    ELSE IF b = NegInf THEN b
    ELSE IF a[2] <= b[2] THEN a ELSE b

MathMax(a, b) ==
    IF b = NaN THEN NaN
    ELSE IF b = NegInf THEN a
    ELSE IF b = PosInf THEN b
    ELSE IF a[2] >= b[2] THEN a ELSE b

\* x * k for an integer k > 0.
Times(x, k) == IF IsNum(x) THEN Num(x[2] * k) ELSE x

\* The store into an Int16Array element: ToInt16 of the number (NaN and the
\* infinities give 0; otherwise truncate, reduce modulo 2^16, read as signed).
ToInt16(x) ==
    IF ~IsNum(x) THEN 0
    ELSE LET t == TruncDiv(x[2], SampleDen)
             m == t % 65536
         IN  IF m >= 32768 THEN m - 65536 ELSE m

\* new Uint8Array(int16.buffer): two bytes per element, low byte first.
Int16Bytes(int16) ==
    [i \in 1..(2 * Len(int16)) |->
        LET u == int16[(i + 1) \div 2] % 65536
        IN  IF i % 2 = 1 THEN u % 256 ELSE u \div 256]

\* The loop without Math.max / Math.min.
FloatTo16BitPCMUnclamped(data) ==
    [i \in 1..Len(data) |-> ToInt16(Times(data[i], 32767))]

\* The Int16Array filled by createBlob's loop.
FloatTo16BitPCM(data) ==
    [i \in 1..Len(data) |-> ToInt16(Times(MathMax(Num(-SampleDen), MathMin(Num(SampleDen), data[i])), 32767))]

createBlob(data) ==
    [data |-> encode(Int16Bytes(FloatTo16BitPCM(data))), mimeType |-> "audio/pcm;rate=16000"]

\* ------------------------------------------------------------- WAV
sampleRate == 24000
numChannels == 1
bitsPerSample == 16

byteRate == (sampleRate * numChannels * bitsPerSample) \div 8
blockAlign == (numChannels * bitsPerSample) \div 8

\* A byte count is a JavaScript number, exact far beyond 2^32.  It is kept as
\* the pair <<hi, lo>> that stands for hi * 2^16 + lo, with lo < 2^16.
Wide(n) == <<n \div 65536, n % 65536>>

\* a + b on byte counts
WideAdd(a, b) == <<a[1] + b[1] + ((a[2] + b[2]) \div 65536), (a[2] + b[2]) % 65536>>

\* The DataView writes, byte by byte: each operator gives the byte its call
\* stores at buffer offset o (offsets count from 0, o within the field).

\* view.setUint32(offset, value): without the littleEndian flag, high byte first.
setUint32BigEndian(offset, value, o) ==
    IF o - offset < 2
    THEN (value[1] \div Pow2(8 * (1 - (o - offset)))) % 256
    ELSE (value[2] \div Pow2(8 * (3 - (o - offset)))) % 256

\* view.setUint32(offset, value, true): the value is converted with ToUint32
\* (reduced modulo 2^32, so everything of hi from 2^16 up is dropped) and its
\* four bytes are stored low byte first.
setUint32(offset, value, o) ==
    IF o - offset < 2
    THEN (value[2] \div Pow2(8 * (o - offset))) % 256
    ELSE (value[1] \div Pow2(8 * (o - offset - 2))) % 256

\* view.setUint16(offset, value, true)
setUint16(offset, value, o) == (value \div Pow2(8 * (o - offset))) % 256

\* writeString(view, offset, string): view.setUint8(offset + i, string.charCodeAt(i))
writeString(offset, string, o) == string[o - offset + 1] % 256

\* The header pcmToWav writes for a payload of dataSize bytes: the byte at
\* offset o < 44.
wavHeader(dataSize, o) ==
    IF o < 4 THEN writeString(0, <<82, 73, 70, 70>>, o)             \* 'RIFF'
    ELSE IF o < 8 THEN setUint32(4, WideAdd(Wide(36), dataSize), o)
    ELSE IF o < 12 THEN writeString(8, <<87, 65, 86, 69>>, o)       \* 'WAVE'
    ELSE IF o < 16 THEN writeString(12, <<102, 109, 116, 32>>, o)   \* 'fmt '
    ELSE IF o < 20 THEN setUint32(16, Wide(16), o)
    ELSE IF o < 22 THEN setUint16(20, 1, o)
    ELSE IF o < 24 THEN setUint16(22, numChannels, o)
    ELSE IF o < 28 THEN setUint32(24, Wide(sampleRate), o)
    ELSE IF o < 32 THEN setUint32(28, Wide(byteRate), o)
    ELSE IF o < 34 THEN setUint16(32, blockAlign, o)
    ELSE IF o < 36 THEN setUint16(34, bitsPerSample, o)
    ELSE IF o < 40 THEN writeString(36, <<100, 97, 116, 97>>, o)    \* 'data'
    ELSE setUint32(40, dataSize, o)

\* pcmToWav(pcmData): the bytes of the Blob it returns, a 44 + dataSize byte
\* buffer filled by the header writes and by Uint8Array(buffer, 44).set(pcmData).
pcmToWav(pcmData) ==
    LET dataSize == Len(pcmData)
    IN  [i \in 1..(44 + dataSize) |->
            IF i <= 44 THEN wavHeader(Wide(dataSize), i - 1) ELSE pcmData[i - 44]]

\* ------------------------------------------------------------- requests
\* The calls of generateAudioFromText that may be in flight together.
Reqs == {1, 2}

VARIABLES
    callers,      \* the requests the caller issues in this run
    started,      \* started[r]: generateAudioFromText(r) was called
    apiKey,       \* apiKey[r]: process.env.API_KEY as the call saw it
    promise,      \* promise[r]: "pending", "resolved" or "rejected"
    result,       \* result[r]: the bytes behind the resolved object URL
    error,        \* error[r]: which Error the promise was rejected with
    audioChunks,  \* audioChunks[a]: the chunk list of accumulator a
    session,      \* session[r]: state of sessionPromise
    connectCalls, \* connectCalls[r]: calls of ai.live.connect
    opened,       \* opened[r]: onopen was delivered
    closed,       \* closed[r]: onclose was delivered
    sendQueued,   \* sendQueued[r]: send callbacks waiting in sessionPromise.then
    sentFrames,   \* sentFrames[r]: frames {media: pcmBlob} the session accepted
    sendCalls,    \* sendCalls[r]: calls of session.sendRealtimeInput
    closeQueued,  \* closeQueued[r]: close callbacks waiting in sessionPromise.then
    closeCalls,   \* closeCalls[r]: calls of session.close
    inbox,        \* inbox[r]: the messages delivered to onmessage, in order
    unhandled,    \* unhandled[r]: onmessage runs that ended in a rejected promise
    errorEvents,  \* errorEvents[r]: onerror deliveries
    wavCalls,     \* wavCalls[r]: calls of pcmToWav
    wavInput,     \* wavInput[r]: the payload of the last pcmToWav call
    urls,         \* urls[r]: calls of URL.createObjectURL
    pc,           \* which pure function a pure-function run applies
    samples,      \* its Float32Array argument
    blobData,     \* createBlob(samples).data
    pcmData,      \* its Uint8Array argument
    wavFile,      \* pcmToWav(pcmData)
    hugeSize,     \* pcmData.length of an argument too large to write out
    wavHeaderBytes, \* the first 44 bytes of what pcmToWav returns for it
    wavError      \* the exception pcmToWav threw for it, "" if none

reqVars == <<callers, started, apiKey, promise, result, error, audioChunks, session,
             connectCalls, opened, closed, sendQueued, sentFrames, sendCalls,
             closeQueued, closeCalls, inbox, unhandled, errorEvents, wavCalls,
             wavInput, urls>>
pureVars == <<pc, samples, blobData, pcmData, wavFile, hugeSize, wavHeaderBytes, wavError>>

VARIABLES
    isAnalyzing,    \* App state: the analysis of the selected file is running
    isGenerating,   \* App state: a generation request is running
    videoFile,      \* App state: the selected file, "null" if none
    voiceAnalyzed,  \* App state: the analysis of the selected file is done
    textToSpeak,    \* App state: the text of the textarea
    audioUrl,       \* App state: the generated audio's URL, <<>> if null
    uiError,        \* App state `error`: the message of the banner, <<>> if null
    analysisTimers, \* setTimeout callbacks of handleFileChange not yet run
    awaiting        \* the texts of the handleGenerateAudio calls at their await

uiVars == <<isAnalyzing, isGenerating, videoFile, voiceAnalyzed, textToSpeak, audioUrl,
            uiError, analysisTimers, awaiting>>
vars == <<reqVars, pureVars, uiVars>>

\* The useState initial values of App.
InitUIIdle ==
    /\ isAnalyzing = FALSE
    /\ isGenerating = FALSE
    /\ videoFile = "null"
    /\ voiceAnalyzed = FALSE
    /\ textToSpeak = <<>>
    /\ audioUrl = <<>>
    /\ uiError = <<>>
    /\ analysisTimers = 0
    /\ awaiting = <<>>

\* ------------------------------------------------------------- inputs
\* process.env.API_KEY: undefined / empty, the placeholder, or a real key.
ApiKeys == {"missing", "YOUR_GEMINI_API_KEY", "valid"}

\* Base64 texts the service may put in inlineData.data.
B64Empty == <<>>                      \* ""      (falsy)
B64OneByte == <<65, 119, 61, 61>>     \* "Aw=="  -> 03
B64TwoBytes == <<65, 81, 73>>         \* "AQI"   -> 01 02 (unpadded)
B64Blank == <<32>>                    \* " "     -> no bytes
B64Malformed == <<65, 119, 61>>       \* "Aw="   -> atob throws

B64Texts == {B64Empty, B64OneByte, B64TwoBytes, B64Blank, B64Malformed}

\* An inbound LiveServerMessage, as far as onmessage reads it.  turn is
\* "none" (the optional chain ends in undefined: no serverContent, modelTurn,
\* parts[0], inlineData or data), "noParts" (a modelTurn without a parts array)
\* or "data" (inlineData.data is the string `data`).
Messages ==
    [turn : {"none", "noParts"}, data : {B64Empty}, turnComplete : BOOLEAN]
    \cup [turn : {"data"}, data : B64Texts, turnComplete : BOOLEAN]

TotalMsgs == Len(inbox[1]) + Len(inbox[2])
TotalErrors == errorEvents[1] + errorEvents[2]

\* ------------------------------------------------------------- promise
\* A promise whose last resolve / reject call wins.
SettleLastWins(r, state, value, err) ==
    /\ promise' = [promise EXCEPT ![r] = state]
    /\ result' = [result EXCEPT ![r] = value]
    /\ error' = [error EXCEPT ![r] = err]

\* resolve / reject of the request's promise: only the first call has an effect.
Settle(r, state, value, err) ==
    IF promise[r] = "pending"
    THEN /\ promise' = [promise EXCEPT ![r] = state]
         /\ result' = [result EXCEPT ![r] = value]
         /\ error' = [error EXCEPT ![r] = err]
    ELSE UNCHANGED <<promise, result, error>>

Resolve(r, value) == Settle(r, "resolved", value, "")
Reject(r, err) == Settle(r, "rejected", <<>>, err)

\* ------------------------------------------------------------- assembler
\* One module-level `audioChunks` for every request.
AccShared(r) == 1

\* The accumulator a request's callbacks close over: its own `audioChunks`,
\* declared inside the promise executor.
Acc(r) == r

\* audioChunks.unshift(decodedChunk)
PushFront(chunks, chunk) == <<chunk>> \o chunks

\* audioChunks.push(decodedChunk)
Push(chunks, chunk) == Append(chunks, chunk)

\* A non-strict test of the accumulator's length.
HasAudioNonStrict(chunks) == Len(chunks) >= 0

\* audioChunks.length > 0
HasAudio(chunks) == Len(chunks) > 0

RECURSIVE TotalLength(_)
\* audioChunks.reduce((acc, chunk) => acc + chunk.length, 0)
TotalLength(chunks) ==
    IF chunks = <<>> THEN 0
    ELSE TotalLength(SubSeq(chunks, 1, Len(chunks) - 1)) + Len(chunks[Len(chunks)])

\* The loop of onclose: chunk k is copied to offset TotalLength(chunks before k).
Flatten(chunks) ==
    LET Offset(k) == TotalLength(SubSeq(chunks, 1, k - 1))
        Owner(i) == CHOOSE k \in 1..Len(chunks) :
                        Offset(k) < i /\ i <= Offset(k) + Len(chunks[k])
    IN  [i \in 1..TotalLength(chunks) |-> chunks[Owner(i)][i - Offset(Owner(i))]]

\* message.serverContent?.modelTurn?.parts[0]?.inlineData?.data: a string,
\* undefined (B64Empty stands for every falsy value) or a TypeError.
ExtractAudio(message) ==
    IF message.turn = "noParts" THEN Throws
    ELSE IF message.turn = "data" THEN message.data
    ELSE B64Empty

\* ------------------------------------------------------------- actions
\* A credential check that forgets the placeholder.
KeyRejectedMissingOnly(key) == key = "missing"

\* The credential check of generateAudioFromText.
KeyRejected(key) == key = "missing" \/ key = "YOUR_GEMINI_API_KEY"

\* new Float32Array(160): ~10 ms of silence.
SilentSamples == 160
silentAudioData == [i \in 1..SilentSamples |-> Num(0)]

\* const pcmBlob = createBlob(silentAudioData)
pcmBlob == createBlob(silentAudioData)

\* The jobs the event loop runs before it delivers the next event: the
\* settlement of sessionPromise, which the library performs in the microtasks
\* that follow the socket's open event, and the reactions registered on a
\* fulfilled sessionPromise (the priming send, the queued closes).
ReactionsPending ==
    \E r \in Reqs :
        \/ opened[r] /\ session[r] = "pending"
        \/ session[r] = "resolved" /\ (sendQueued[r] > 0 \/ closeQueued[r] > 0)

\* generateAudioFromText(text) up to the return of the executor: the credential
\* check, then ai.live.connect(...), which registers the callbacks and returns
\* sessionPromise, or throws into the catch block.
Generate(r, key, connectThrows) ==
    /\ r \in callers
    /\ ~started[r]
    /\ ~ReactionsPending
    /\ started' = [started EXCEPT ![r] = TRUE]
    /\ apiKey' = [apiKey EXCEPT ![r] = key]
    /\ IF KeyRejected(key)
       THEN /\ Reject(r, "config")
            /\ UNCHANGED <<connectCalls, session>>
       ELSE /\ connectCalls' = [connectCalls EXCEPT ![r] = @ + 1]
            /\ IF connectThrows
               THEN Reject(r, "connect") /\ UNCHANGED session
               ELSE /\ session' = [session EXCEPT ![r] = "pending"]
                    /\ UNCHANGED <<promise, result, error>>
    /\ UNCHANGED <<callers, audioChunks, opened, closed, sendQueued, sentFrames,
                   sendCalls, closeQueued, closeCalls, inbox, unhandled, errorEvents,
                   wavCalls, wavInput, urls, pureVars, uiVars>>

\* sessionPromise is fulfilled: the library does so once the socket is open, in
\* the microtasks that follow its open event.
SessionResolves(r) ==
    /\ session[r] = "pending"
    /\ opened[r]
    /\ session' = [session EXCEPT ![r] = "resolved"]
    /\ UNCHANGED <<callers, started, apiKey, promise, result, error, audioChunks,
                   connectCalls, opened, closed, sendQueued, sentFrames, sendCalls,
                   closeQueued, closeCalls, inbox, unhandled, errorEvents, wavCalls,
                   wavInput, urls, pureVars, uiVars>>

\* sessionPromise is rejected (before the socket opens, or in the microtasks
\* that follow its open event): sessionPromise.catch(reject), and every chain
\* hanging on sessionPromise.then skips its callback (onopen's chain ends in
\* catch(reject), onmessage's in catch(console.error)).
SessionRejects(r) ==
    /\ session[r] = "pending"
    /\ opened[r] \/ ~ReactionsPending
    /\ session' = [session EXCEPT ![r] = "rejected"]
    /\ Reject(r, "connect")
    /\ sendQueued' = [sendQueued EXCEPT ![r] = 0]
    /\ closeQueued' = [closeQueued EXCEPT ![r] = 0]
    /\ UNCHANGED <<callers, started, apiKey, audioChunks, connectCalls, opened, closed,
                   sentFrames, sendCalls, closeCalls, inbox, unhandled, errorEvents,
                   wavCalls, wavInput, urls, pureVars, uiVars>>

\* An onopen that sends the frame at once, without waiting for sessionPromise.
OnOpenSendsAtOnce(r) ==
    /\ session[r] = "pending"
    /\ ~opened[r]
    /\ ~closed[r]
    /\ ~ReactionsPending
    /\ opened' = [opened EXCEPT ![r] = TRUE]
    /\ sendCalls' = [sendCalls EXCEPT ![r] = @ + 1]
    /\ sentFrames' = [sentFrames EXCEPT ![r] = @ + 1]
    /\ UNCHANGED <<callers, started, apiKey, promise, result, error, audioChunks,
                   session, connectCalls, closed, sendQueued, closeQueued, closeCalls,
                   inbox, unhandled, errorEvents, wavCalls, wavInput, urls, pureVars, uiVars>>

\* callbacks.onopen: builds pcmBlob and queues the send of {media: pcmBlob}.
OnOpen(r) ==
    /\ session[r] = "pending"
    /\ ~opened[r]
    /\ ~closed[r]
    /\ ~ReactionsPending
    /\ opened' = [opened EXCEPT ![r] = TRUE]
    /\ sendQueued' = [sendQueued EXCEPT ![r] = @ + 1]
    /\ UNCHANGED <<callers, started, apiKey, promise, result, error, audioChunks,
                   session, connectCalls, closed, sentFrames, sendCalls, closeQueued,
                   closeCalls, inbox, unhandled, errorEvents, wavCalls, wavInput, urls,
                   pureVars, uiVars>>

\* The callback onopen queued: session.sendRealtimeInput({media: pcmBlob}),
\* whose throw goes to catch(reject).
SendPriming(r, sendThrows) ==
    /\ session[r] = "resolved"
    /\ sendQueued[r] > 0
    /\ sendQueued' = [sendQueued EXCEPT ![r] = @ - 1]
    /\ sendCalls' = [sendCalls EXCEPT ![r] = @ + 1]
    /\ IF sendThrows
       THEN Reject(r, "send") /\ UNCHANGED sentFrames
       ELSE /\ sentFrames' = [sentFrames EXCEPT ![r] = @ + 1]
            /\ UNCHANGED <<promise, result, error>>
    /\ UNCHANGED <<callers, started, apiKey, audioChunks, session, connectCalls, opened,
                   closed, closeQueued, closeCalls, inbox, unhandled, errorEvents,
                   wavCalls, wavInput, urls, pureVars, uiVars>>

\* callbacks.onmessage, an async function: a throw inside it (the parts[0]
\* access, or atob inside decode) rejects the promise it returns, which nobody
\* awaits, and skips the rest of the body.
OnMessage(r, message) ==
    /\ opened[r]
    /\ ~closed[r]
    /\ ~ReactionsPending
    /\ TotalMsgs < MaxMsgs
    /\ inbox' = [inbox EXCEPT ![r] = Append(@, message)]
    /\ LET base64Audio == ExtractAudio(message)
           decodedChunk == IF base64Audio = Throws THEN Throws ELSE decode(base64Audio)
       IN  IF base64Audio = Throws \/ (base64Audio # <<>> /\ decodedChunk = Throws)
           THEN /\ unhandled' = [unhandled EXCEPT ![r] = @ + 1]
                /\ UNCHANGED <<audioChunks, closeQueued>>
           ELSE /\ audioChunks' =
                       IF base64Audio # <<>>
                       THEN [audioChunks EXCEPT ![Acc(r)] = Push(@, decodedChunk)]
                       ELSE audioChunks
                /\ closeQueued' =
                       IF message.turnComplete
                       THEN [closeQueued EXCEPT ![r] = @ + 1]
                       ELSE closeQueued
                /\ UNCHANGED unhandled
    /\ UNCHANGED <<callers, started, apiKey, promise, result, error, session,
                   connectCalls, opened, closed, sendQueued, sentFrames, sendCalls,
                   closeCalls, errorEvents, wavCalls, wavInput, urls, pureVars, uiVars>>

\* A callback onmessage queued: session.close().
RunClose(r) ==
    /\ session[r] = "resolved"
    /\ closeQueued[r] > 0
    /\ closeQueued' = [closeQueued EXCEPT ![r] = @ - 1]
    /\ closeCalls' = [closeCalls EXCEPT ![r] = @ + 1]
    /\ UNCHANGED <<callers, started, apiKey, promise, result, error, audioChunks,
                   session, connectCalls, opened, closed, sendQueued, sentFrames,
                   sendCalls, inbox, unhandled, errorEvents, wavCalls, wavInput, urls,
                   pureVars, uiVars>>

\* callbacks.onclose
OnClose(r) ==
    /\ session[r] # "none"
    /\ ~closed[r]
    /\ ~ReactionsPending
    /\ closed' = [closed EXCEPT ![r] = TRUE]
    /\ IF HasAudio(audioChunks[Acc(r)])
       THEN LET fullAudio == Flatten(audioChunks[Acc(r)])
                audioBlob == pcmToWav(fullAudio)
            IN  /\ wavCalls' = [wavCalls EXCEPT ![r] = @ + 1]
                /\ wavInput' = [wavInput EXCEPT ![r] = fullAudio]
                /\ urls' = [urls EXCEPT ![r] = @ + 1]
                /\ Resolve(r, audioBlob)
       ELSE /\ Reject(r, "noAudio")
            /\ UNCHANGED <<wavCalls, wavInput, urls>>
    /\ UNCHANGED <<callers, started, apiKey, audioChunks, session, connectCalls, opened,
                   sendQueued, sentFrames, sendCalls, closeQueued, closeCalls, inbox,
                   unhandled, errorEvents, pureVars, uiVars>>

\* An onerror that only logs.
OnErrorLogOnly(r) ==
    /\ session[r] # "none"
    /\ ~closed[r]
    /\ ~ReactionsPending
    /\ TotalErrors < MaxErrors
    /\ errorEvents' = [errorEvents EXCEPT ![r] = @ + 1]
    /\ UNCHANGED <<callers, started, apiKey, promise, result, error, audioChunks,
                   session, connectCalls, opened, closed, sendQueued, sentFrames,
                   sendCalls, closeQueued, closeCalls, inbox, unhandled, wavCalls,
                   wavInput, urls, pureVars, uiVars>>

\* callbacks.onerror
OnError(r) ==
    /\ session[r] # "none"
    /\ ~closed[r]
    /\ ~ReactionsPending
    /\ TotalErrors < MaxErrors
    /\ errorEvents' = [errorEvents EXCEPT ![r] = @ + 1]
    /\ Reject(r, "connection")
    /\ UNCHANGED <<callers, started, apiKey, audioChunks, session, connectCalls, opened,
                   closed, sendQueued, sentFrames, sendCalls, closeQueued, closeCalls,
                   inbox, unhandled, wavCalls, wavInput, urls, pureVars, uiVars>>

\* ------------------------------------------------------------- specification
InitReqs(cs) ==
    /\ callers = cs
    /\ started = [r \in Reqs |-> FALSE]
    /\ apiKey = [r \in Reqs |-> "unread"]
    /\ promise = [r \in Reqs |-> "pending"]
    /\ result = [r \in Reqs |-> <<>>]
    /\ error = [r \in Reqs |-> ""]
    /\ audioChunks = [a \in Reqs |-> <<>>]
    /\ session = [r \in Reqs |-> "none"]
    /\ connectCalls = [r \in Reqs |-> 0]
    /\ opened = [r \in Reqs |-> FALSE]
    /\ closed = [r \in Reqs |-> FALSE]
    /\ sendQueued = [r \in Reqs |-> 0]
    /\ sentFrames = [r \in Reqs |-> 0]
    /\ sendCalls = [r \in Reqs |-> 0]
    /\ closeQueued = [r \in Reqs |-> 0]
    /\ closeCalls = [r \in Reqs |-> 0]
    /\ inbox = [r \in Reqs |-> <<>>]
    /\ unhandled = [r \in Reqs |-> 0]
    /\ errorEvents = [r \in Reqs |-> 0]
    /\ wavCalls = [r \in Reqs |-> 0]
    /\ wavInput = [r \in Reqs |-> <<>>]
    /\ urls = [r \in Reqs |-> 0]

InitPureIdle ==
    /\ pc = "none"
    /\ samples = <<>>
    /\ blobData = <<>>
    /\ pcmData = <<>>
    /\ wavFile = <<>>
    /\ hugeSize = Wide(0)
    /\ wavHeaderBytes = <<>>
    /\ wavError = ""

\* One request at a time.
Init == InitReqs({1}) /\ InitPureIdle /\ InitUIIdle

Next ==
    \E r \in Reqs :
        \/ \E key \in ApiKeys, connectThrows \in BOOLEAN : Generate(r, key, connectThrows)
        \/ OnOpen(r)
        \/ \E message \in Messages : OnMessage(r, message)
        \/ OnError(r)
        \/ OnClose(r)
        \/ SessionResolves(r)
        \/ SessionRejects(r)
        \/ \E sendThrows \in BOOLEAN : SendPriming(r, sendThrows)
        \/ RunClose(r)

Spec == Init /\ [][Next]_vars

\* ------------------------------------------------------------- fairness
\* The service has sent a turn-complete message or an error event on session r.
ServiceEnded(r) ==
    \/ errorEvents[r] > 0
    \/ \E i \in 1..Len(inbox[r]) : inbox[r][i].turnComplete

\* The service's last word: a turn-complete message (of any content) or an error.
ServiceEnds(r) ==
    /\ ~ServiceEnded(r)
    /\ \/ OnError(r)
       \/ \E message \in Messages : message.turnComplete /\ OnMessage(r, message)

\* The transport's close event once session.close() was called.
CloseDelivered(r) == closeCalls[r] > 0 /\ OnClose(r)

\* Promise reactions run once their promise settles; the connect promise settles;
\* the service ends its turn; a requested close is delivered.
Fairness ==
    \A r \in Reqs :
        /\ WF_vars(SessionResolves(r) \/ SessionRejects(r))
        /\ WF_vars(\E sendThrows \in BOOLEAN : SendPriming(r, sendThrows))
        /\ WF_vars(RunClose(r))
        /\ WF_vars(CloseDelivered(r))
        /\ WF_vars(ServiceEnds(r))

FairSpec == Init /\ [][Next]_vars /\ Fairness

\* ------------------------------------------------------------- two requests
\* Each session's service sends its own audio text, so that a chunk landing in
\* the other request's accumulator shows.
OwnText(r) == IF r = 1 THEN B64OneByte ELSE B64TwoBytes

MessagesOf(r) ==
    {m \in Messages : m.turn = "none" \/ (m.turn = "data" /\ m.data = OwnText(r))}

InitTwo == InitReqs({1, 2}) /\ InitPureIdle /\ InitUIIdle

NextTwo ==
    \E r \in Reqs :
        \/ \E key \in {"missing", "valid"}, connectThrows \in BOOLEAN :
               Generate(r, key, connectThrows)
        \/ OnOpen(r)
        \/ \E message \in MessagesOf(r) : OnMessage(r, message)
        \/ OnError(r)
        \/ OnClose(r)
        \/ SessionResolves(r)
        \/ SessionRejects(r)
        \/ \E sendThrows \in BOOLEAN : SendPriming(r, sendThrows)
        \/ RunClose(r)

SpecTwo == InitTwo /\ [][NextTwo]_vars

\* ------------------------------------------------------------- pure functions
\* Float samples: the multiples of 1 / SampleDen in [-2, 2], the infinities, NaN.
SampleVals ==
    {Num(n) : n \in (-2 * SampleDen)..(2 * SampleDen)} \cup {NaN, PosInf, NegInf}

SampleSeqs ==
    UNION {[1..n -> SampleVals] : n \in 0..MaxSamples} \cup {silentAudioData}

PayloadBytes == {0, 1, 127, 128, 255}

PayloadSeqs == UNION {[1..n -> PayloadBytes] : n \in 0..MaxPayload}

\* Payload lengths around 2^32 - 36 and 2^32.
HugeSizes == {<<hi, lo>> : hi \in {65535, 65536}, lo \in {0, 65499, 65500, 65535}}

InitPure ==
    /\ InitReqs({})
    /\ InitUIIdle
    /\ blobData = <<>>
    /\ wavFile = <<>>
    /\ wavHeaderBytes = <<>>
    /\ wavError = ""
    /\ \/ pc = "createBlob" /\ samples \in SampleSeqs /\ pcmData = <<>>
          /\ hugeSize = Wide(0)
       \/ pc = "pcmToWav" /\ pcmData \in PayloadSeqs /\ samples = <<>>
          /\ hugeSize = Wide(0)
       \/ pc = "pcmToWavHuge" /\ hugeSize \in HugeSizes /\ samples = <<>>
          /\ pcmData = <<>>

RunCreateBlob ==
    /\ pc = "createBlob"
    /\ pc' = "createBlobDone"
    /\ blobData' = createBlob(samples).data
    /\ UNCHANGED <<reqVars, uiVars, samples, pcmData, wavFile, hugeSize, wavHeaderBytes, wavError>>

RunPcmToWav ==
    /\ pc = "pcmToWav"
    /\ pc' = "pcmToWavDone"
    /\ wavFile' = pcmToWav(pcmData)
    /\ UNCHANGED <<reqVars, uiVars, samples, pcmData, blobData, hugeSize, wavHeaderBytes, wavError>>

\* pcmToWav on a payload of hugeSize bytes, as far as its header: new
\* ArrayBuffer(44 + dataSize) throws a RangeError where the engine cannot
\* allocate that much; otherwise the header writes run.
RunPcmToWavHuge(allocationFails) ==
    /\ pc = "pcmToWavHuge"
    /\ pc' = "pcmToWavHugeDone"
    /\ IF allocationFails
       THEN wavError' = "RangeError" /\ wavHeaderBytes' = <<>>
       ELSE /\ wavError' = ""
            /\ wavHeaderBytes' = [i \in 1..44 |-> wavHeader(hugeSize, i - 1)]
    /\ UNCHANGED <<reqVars, uiVars, samples, pcmData, blobData, wavFile, hugeSize>>

NextPure ==
    \/ RunCreateBlob
    \/ RunPcmToWav
    \/ \E allocationFails \in BOOLEAN : RunPcmToWavHuge(allocationFails)

SpecPure == InitPure /\ [][NextPure]_vars

\* ------------------------------------------------------------- the UI: App
\* textToSpeak.trim() removes white space (of the Latin-1 range here) at both
\* ends of the text; texts are sequences of char codes.
TrimWhitespace == {9, 10, 11, 12, 13, 32, 160}

RECURSIVE trimStart(_)
trimStart(text) ==
    IF text # <<>> /\ Head(text) \in TrimWhitespace THEN trimStart(Tail(text)) ELSE text

RECURSIVE trimEnd(_)
trimEnd(text) ==
    IF text # <<>> /\ text[Len(text)] \in TrimWhitespace
    THEN trimEnd(SubSeq(text, 1, Len(text) - 1))
    ELSE text

trim(text) == trimEnd(trimStart(text))

\* !textToSpeak.trim(): the empty string is the only falsy one.
IsBlank(text) == trim(text) = <<>>

\* What the user may type: "", " ", "hi", " a".
Texts == {<<>>, <<32>>, <<104, 105>>, <<32, 97>>}

\* event.target.files?.[0]: undefined when the dialog was cancelled.
Files == {"a.mp4", "b.mov"}

\* What generateAudioFromText may reject with: one of its Errors, or a value
\* of the library's that is no Error.
Rejections == {"config", "connect", "send", "noAudio", "connection", "nonError"}

\* err instanceof Error ? err.message : 'An unknown error occurred.'
errorMessage(err) == IF err = "nonError" THEN "An unknown error occurred." ELSE err

\* The object URL a resolved request for `text` yields.
UrlOf(text) == <<"blob:", text>>

\* <input id="video-upload" disabled={isAnalyzing}>
FileInputDisabled == isAnalyzing

\* <textarea disabled={!voiceAnalyzed || isGenerating}>
TextAreaDisabled == ~voiceAnalyzed \/ isGenerating

\* <button onClick={handleGenerateAudio} disabled={...}>
GenerateDisabled == ~voiceAnalyzed \/ isGenerating \/ IsBlank(textToSpeak)

\* A file input that stays enabled during the analysis.
handleFileChangeAnyTime(file) ==
    /\ analysisTimers < MaxTimers
    /\ IF file # "none"
       THEN /\ uiError' = <<>>
            /\ audioUrl' = <<>>
            /\ voiceAnalyzed' = FALSE
            /\ videoFile' = file
            /\ isAnalyzing' = TRUE
            /\ analysisTimers' = analysisTimers + 1
       ELSE UNCHANGED <<uiError, audioUrl, voiceAnalyzed, videoFile, isAnalyzing,
                        analysisTimers>>
    /\ UNCHANGED <<isGenerating, textToSpeak, awaiting, reqVars, pureVars>>

\* The change event of the file input, handled by handleFileChange, which
\* starts the 2500 ms analysis timer.
handleFileChange(file) ==
    /\ ~FileInputDisabled
    /\ analysisTimers < MaxTimers
    /\ IF file # "none"
       THEN /\ uiError' = <<>>
            /\ audioUrl' = <<>>
            /\ voiceAnalyzed' = FALSE
            /\ videoFile' = file
            /\ isAnalyzing' = TRUE
            /\ analysisTimers' = analysisTimers + 1
       ELSE UNCHANGED <<uiError, audioUrl, voiceAnalyzed, videoFile, isAnalyzing,
                        analysisTimers>>
    /\ UNCHANGED <<isGenerating, textToSpeak, awaiting, reqVars, pureVars>>

\* The callback of setTimeout(..., 2500).
AnalysisTimerFires ==
    /\ analysisTimers > 0
    /\ analysisTimers' = analysisTimers - 1
    /\ isAnalyzing' = FALSE
    /\ voiceAnalyzed' = TRUE
    /\ UNCHANGED <<isGenerating, videoFile, textToSpeak, audioUrl, uiError, awaiting,
                   reqVars, pureVars>>

\* The change event of the textarea: setTextToSpeak(e.target.value).
TextChange(text) ==
    /\ ~TextAreaDisabled
    /\ textToSpeak' = text
    /\ UNCHANGED <<isAnalyzing, isGenerating, videoFile, voiceAnalyzed, audioUrl,
                   uiError, analysisTimers, awaiting, reqVars, pureVars>>

\* A Generate button and handler that do not look at isGenerating.
handleGenerateAudioUnguarded ==
    /\ voiceAnalyzed
    /\ ~IsBlank(textToSpeak)
    /\ Len(awaiting) < MaxAwaiting
    /\ isGenerating' = TRUE
    /\ uiError' = <<>>
    /\ audioUrl' = <<>>
    /\ awaiting' = Append(awaiting, textToSpeak)
    /\ UNCHANGED <<isAnalyzing, videoFile, voiceAnalyzed, textToSpeak, analysisTimers,
                   reqVars, pureVars>>

\* A handleGenerateAudio that leaves the error banner up.
handleGenerateAudioKeepsError ==
    /\ ~GenerateDisabled
    /\ Len(awaiting) < MaxAwaiting
    /\ IF IsBlank(textToSpeak) \/ isGenerating
       THEN UNCHANGED <<isGenerating, uiError, audioUrl, awaiting>>
       ELSE /\ isGenerating' = TRUE
            /\ audioUrl' = <<>>
            /\ awaiting' = Append(awaiting, textToSpeak)
            /\ UNCHANGED uiError
    /\ UNCHANGED <<isAnalyzing, videoFile, voiceAnalyzed, textToSpeak, analysisTimers,
                   reqVars, pureVars>>

\* A click on the Generate button: handleGenerateAudio up to its await of
\* generateAudioFromText(textToSpeak).
handleGenerateAudio ==
    /\ ~GenerateDisabled
    /\ Len(awaiting) < MaxAwaiting
    /\ IF IsBlank(textToSpeak) \/ isGenerating
       THEN UNCHANGED <<isGenerating, uiError, audioUrl, awaiting>>
       ELSE /\ isGenerating' = TRUE
            /\ uiError' = <<>>
            /\ audioUrl' = <<>>
            /\ awaiting' = Append(awaiting, textToSpeak)
    /\ UNCHANGED <<isAnalyzing, videoFile, voiceAnalyzed, textToSpeak, analysisTimers,
                   reqVars, pureVars>>

\* awaiting without its i-th entry
Without(calls, i) == SubSeq(calls, 1, i - 1) \o SubSeq(calls, i + 1, Len(calls))

\* The awaited promise of the i-th suspended call is fulfilled: the rest of
\* the try block, then the finally block.
GenerationResolves(i) ==
    /\ i \in 1..Len(awaiting)
    /\ audioUrl' = UrlOf(awaiting[i])
    /\ isGenerating' = FALSE
    /\ awaiting' = Without(awaiting, i)
    /\ UNCHANGED <<isAnalyzing, videoFile, voiceAnalyzed, textToSpeak, uiError,
                   analysisTimers, reqVars, pureVars>>

\* The awaited promise of the i-th suspended call is rejected: the catch
\* block, then the finally block.
GenerationRejects(i, err) ==
    /\ i \in 1..Len(awaiting)
    /\ uiError' = <<"Error generating audio: ", errorMessage(err)>>
    /\ isGenerating' = FALSE
    /\ awaiting' = Without(awaiting, i)
    /\ UNCHANGED <<isAnalyzing, videoFile, voiceAnalyzed, textToSpeak, audioUrl,
                   analysisTimers, reqVars, pureVars>>

\* The button of the error banner: setError(null).
DismissError ==
    /\ uiError # <<>>
    /\ uiError' = <<>>
    /\ UNCHANGED <<isAnalyzing, isGenerating, videoFile, voiceAnalyzed, textToSpeak,
                   audioUrl, analysisTimers, awaiting, reqVars, pureVars>>

InitUI == InitReqs({}) /\ InitPureIdle /\ InitUIIdle

NextUI ==
    \/ \E file \in Files \cup {"none"} : handleFileChange(file)
    \/ AnalysisTimerFires
    \/ \E text \in Texts : TextChange(text)
    \/ handleGenerateAudio
    \/ \E i \in 1..MaxAwaiting : GenerationResolves(i)
    \/ \E i \in 1..MaxAwaiting, err \in Rejections : GenerationRejects(i, err)
    \/ DismissError

SpecUI == InitUI /\ [][NextUI]_vars

\* A pending timer fires.
FairSpecUI == InitUI /\ [][NextUI]_vars /\ WF_vars(AnalysisTimerFires)

\* ------------------------------------------------------------- claims: helpers
RECURSIVE Concat(_)
\* c1 c2 ... cn
Concat(chunks) == IF chunks = <<>> THEN <<>> ELSE Head(chunks) \o Concat(Tail(chunks))

\* The messages of session r that carry an audio payload, in arrival order.
AudioMessages(r) == SelectSeq(inbox[r], LAMBDA m : m.turn = "data")

ValidBase64(text) == atob(text) # Throws

AllAudioValid(r) ==
    \A i \in 1..Len(AudioMessages(r)) : ValidBase64(AudioMessages(r)[i].data)

\* The bytes each audio message of session r encodes, in arrival order.
DeliveredChunks(r) ==
    [i \in 1..Len(AudioMessages(r)) |-> decode(AudioMessages(r)[i].data)]

\* onmessage met a chunk whose base64 decoding failed.
DecodeFailed(r) ==
    \E i \in 1..Len(AudioMessages(r)) : ~ValidBase64(AudioMessages(r)[i].data)

\* The error of a request that something other than onclose rejected: an error
\* event, the rejected connect promise, or the priming send that threw.
EarlierError(r) ==
    \/ error[r] = "connection" /\ errorEvents[r] > 0
    \/ error[r] = "connect" /\ session[r] = "rejected"
    \/ error[r] = "send" /\ sendCalls[r] > sentFrames[r]

\* ------------------------------------------------------------- C1
\* C1 as stated: after close, a session whose audio messages (n >= 1) were all
\* validly encoded has handed the WAV writer exactly c1 c2 ... cn.
C1_PayloadIsConcatenation ==
    \A r \in Reqs :
        (closed[r] /\ AllAudioValid(r) /\ Len(AudioMessages(r)) >= 1)
            => (wavCalls[r] = 1 /\ wavInput[r] = Concat(DeliveredChunks(r)))

\* C1 amended: the same, for sessions in which at least one audio message has a
\* non-empty base64 text (an empty text is treated as no payload, so a session
\* of empty texts only never reaches the WAV writer).
C1_PayloadIsConcatenationNonEmpty ==
    \A r \in Reqs :
        (/\ closed[r]
         /\ AllAudioValid(r)
         /\ \E i \in 1..Len(AudioMessages(r)) : AudioMessages(r)[i].data # <<>>)
            => (wavCalls[r] = 1 /\ wavInput[r] = Concat(DeliveredChunks(r)))

C1_Witness ==
    /\ closed[1]
    /\ AllAudioValid(1)
    /\ Len(inbox[1]) = 2
    /\ inbox[1][1].data = B64TwoBytes
    /\ inbox[1][2].data = B64OneByte
    /\ wavInput[1] = <<1, 2, 3>>

\* ------------------------------------------------------------- C2
\* C2: once a chunk failed to decode, the request never resolves, no WAV is
\* built for it, and after the close it is rejected.
C2_MalformedChunkFailsRequest ==
    \A r \in Reqs :
        DecodeFailed(r)
            => /\ promise[r] # "resolved"
               /\ wavCalls[r] = 0
               /\ closed[r] => promise[r] = "rejected"

\* ------------------------------------------------------------- C3
\* C3: a settled request keeps its outcome (state, value and error) for ever.
C3_SettlesAtMostOnce ==
    [][\A r \in Reqs :
          promise[r] # "pending"
              => /\ promise'[r] = promise[r]
                 /\ result'[r] = result[r]
                 /\ error'[r] = error[r]]_vars

\* A close that built a WAV and called resolve on a request an error event had
\* already rejected.
C3_Witness ==
    /\ promise[1] = "rejected"
    /\ error[1] = "connection"
    /\ closed[1]
    /\ wavCalls[1] = 1

\* ------------------------------------------------------------- C4
\* C4 as stated: a close with no audio chunk ever received leaves the request
\* rejected with the "no audio" error and no WAV; a resolved request has a
\* non-empty accumulator.
C4_EmptyCloseIsNoAudioError ==
    \A r \in Reqs :
        /\ (closed[r] /\ Len(AudioMessages(r)) = 0)
               => /\ promise[r] = "rejected"
                  /\ error[r] = "noAudio"
                  /\ wavCalls[r] = 0
                  /\ urls[r] = 0
        /\ promise[r] = "resolved" => Len(audioChunks[Acc(r)]) >= 1

\* C4 amended: such a close leaves the request rejected and without a WAV; the
\* error is the "no audio" one unless an earlier failure had already rejected
\* the request, whose error then stands.
C4_EmptyCloseIsRejected ==
    \A r \in Reqs :
        /\ (closed[r] /\ Len(AudioMessages(r)) = 0)
               => /\ promise[r] = "rejected"
                  /\ error[r] = "noAudio" \/ EarlierError(r)
                  /\ wavCalls[r] = 0
                  /\ urls[r] = 0
        /\ promise[r] = "resolved" => Len(audioChunks[Acc(r)]) >= 1

C4_Witness ==
    /\ closed[1]
    /\ Len(inbox[1]) >= 1
    /\ Len(AudioMessages(1)) = 0
    /\ error[1] = "noAudio"

\* ------------------------------------------------------------- C5
\* C5: after an error event (they all precede the close) the request is
\* rejected and holds no audio resource, whatever was accumulated and whatever
\* the close does.
C5_ErrorMeansRejected ==
    \A r \in Reqs :
        errorEvents[r] > 0 => (promise[r] = "rejected" /\ result[r] = <<>>)

C5_Witness ==
    /\ errorEvents[1] > 0
    /\ closed[1]
    /\ Len(audioChunks[Acc(1)]) >= 1
    /\ wavCalls[1] = 1
    /\ promise[1] = "rejected"

\* ------------------------------------------------------------- C6
\* C6: every request that passed the credential check is eventually settled
\* (under FairSpec: the service ends its turn or errors, a requested close is
\* delivered, promise reactions run).
C6_EventuallySettles ==
    \A r \in Reqs :
        (started[r] /\ apiKey[r] = "valid") ~> (promise[r] # "pending")

\* ------------------------------------------------------------- C7
\* What session r's own messages put into an accumulator: the decoded bytes of
\* its audio messages with a non-empty, valid text, in arrival order.
OwnChunks(r) ==
    LET kept == SelectSeq(AudioMessages(r),
                          LAMBDA m : m.data # <<>> /\ ValidBase64(m.data))
    IN  [i \in 1..Len(kept) |-> decode(kept[i].data)]

\* The request was settled by an event of its own session or call.
SettledByOwnEvent(r) ==
    \/ closed[r]
    \/ errorEvents[r] > 0
    \/ session[r] = "rejected"
    \/ sendCalls[r] > sentFrames[r]
    \/ started[r] /\ session[r] = "none"

\* C7: with two requests in flight, each request's accumulator holds exactly
\* the chunks of its own session, its WAV payload is their concatenation, and
\* it is settled only by its own events.
C7_IndependentAccumulators ==
    \A r \in Reqs :
        /\ audioChunks[Acc(r)] = OwnChunks(r)
        /\ closed[r] /\ Len(OwnChunks(r)) >= 1
               => wavCalls[r] = 1 /\ wavInput[r] = Concat(OwnChunks(r))
        /\ promise[r] # "pending" => SettledByOwnEvent(r)
        /\ promise[r] = "resolved" => result[r] = pcmToWav(Concat(OwnChunks(r)))

\* Request 2 closed with its chunk while request 1, holding another chunk, is
\* still open and pending.
C7_Witness ==
    /\ closed[2]
    /\ promise[2] = "resolved"
    /\ wavInput[2] = <<1, 2>>
    /\ ~closed[1]
    /\ promise[1] = "pending"
    /\ audioChunks[Acc(1)] = <<(<<3>>)>>

\* ------------------------------------------------------------- C8
\* C8: a call that saw a missing or placeholder credential is rejected with the
\* configuration error and never connects, sends, or receives a callback.
C8_ConfigErrorBeforeSession ==
    \A r \in Reqs :
        (started[r] /\ apiKey[r] \in {"missing", "YOUR_GEMINI_API_KEY"})
            => /\ promise[r] = "rejected"
               /\ error[r] = "config"
               /\ connectCalls[r] = 0
               /\ session[r] = "none"
               /\ sendQueued[r] = 0
               /\ sendCalls[r] = 0
               /\ ~opened[r]
               /\ ~closed[r]
               /\ inbox[r] = <<>>
               /\ errorEvents[r] = 0

C8_Witness ==
    /\ started[1]
    /\ apiKey[1] = "YOUR_GEMINI_API_KEY"
    /\ promise[1] = "rejected"

\* ------------------------------------------------------------- C9
\* Little-endian reads at a byte offset counted from 0.
U16At(bytes, offset) == bytes[offset + 1] + 256 * bytes[offset + 2]
U32At(bytes, offset) ==
    bytes[offset + 1] + 256 * bytes[offset + 2]
    + 65536 * bytes[offset + 3] + 16777216 * bytes[offset + 4]

\* C9: pcmToWav yields 44 + len bytes, RIFF size 36 + len at 4, data size len at
\* 40, the format fields 1 / 24000 / 48000 / 2 / 16 at 22 / 24 / 28 / 32 / 34,
\* and the payload verbatim from offset 44.
C9_WavLayout ==
    pc = "pcmToWavDone"
        => /\ Len(wavFile) = 44 + Len(pcmData)
           /\ U32At(wavFile, 4) = 36 + Len(pcmData)
           /\ U32At(wavFile, 40) = Len(pcmData)
           /\ U16At(wavFile, 22) = 1
           /\ U32At(wavFile, 24) = 24000
           /\ U32At(wavFile, 28) = 48000
           /\ U16At(wavFile, 32) = 2
           /\ U16At(wavFile, 34) = 16
           /\ \A i \in 1..Len(pcmData) : wavFile[44 + i] = pcmData[i]

C9_Witness ==
    /\ pc = "pcmToWavDone"
    /\ pcmData = <<255>>
    /\ Len(wavFile) = 45

\* ------------------------------------------------------------- C10
Abs(n) == IF n >= 0 THEN n ELSE -n

\* The signed 16-bit value in bytes 2i-1 and 2i, low byte first.
S16At(bytes, i) ==
    LET u == bytes[2 * i - 1] + 256 * bytes[2 * i]
    IN  IF u >= 32768 THEN u - 65536 ELSE u

\* v is x * 32767 truncated toward zero, for the sample x = n / SampleDen.
IsTruncatedScale(v, n) ==
    /\ Abs(v) * SampleDen <= Abs(n) * 32767
    /\ Abs(n) * 32767 < (Abs(v) + 1) * SampleDen
    /\ v # 0 => ((v > 0) <=> (n > 0))

\* C10: createBlob emits two bytes per sample, low byte first; a sample in
\* [-1, 1] becomes s * 32767 truncated, a sample beyond (the infinities too)
\* saturates at +32767 / -32767, NaN becomes 0; nothing wraps or is rejected;
\* 160 zero samples give 320 zero bytes.
C10_Float16Encoding ==
    pc = "createBlobDone"
        => LET bytes == decode(blobData)
           IN  /\ bytes # Throws
               /\ Len(bytes) = 2 * Len(samples)
               /\ \A i \in 1..Len(samples) :
                      LET s == samples[i]
                          v == S16At(bytes, i)
                      IN  IF s = NaN THEN v = 0
                          ELSE IF s = PosInf THEN v = 32767
                          ELSE IF s = NegInf THEN v = -32767
                          ELSE IF s[2] >= SampleDen THEN v = 32767
                          ELSE IF s[2] <= -SampleDen THEN v = -32767
                          ELSE IsTruncatedScale(v, s[2])
               /\ samples = silentAudioData
                      => bytes = [i \in 1..320 |-> 0] /\ blobData = pcmBlob.data

\* A sample of 2.0 followed by one of -0.75.
C10_Witness ==
    /\ pc = "createBlobDone"
    /\ samples = <<Num(2 * SampleDen), Num(-3 * (SampleDen \div 4))>>
    /\ decode(blobData) = <<255, 127, 1, 160>>

\* ------------------------------------------------------------- C11
\* The close requests session r has made so far: those still waiting on
\* sessionPromise and those that already called session.close().
CloseRequests(r) == closeQueued[r] + closeCalls[r]

\* C11: once an error event was delivered on a session, no later callback is
\* honored: no step appends to its accumulator or requests a close, and no step
\* flattens the accumulator, builds a WAV or creates an object URL.
C11_NothingHonoredAfterError ==
    [][\A r \in Reqs :
          errorEvents[r] > 0
              => /\ audioChunks'[Acc(r)] = audioChunks[Acc(r)]
                 /\ CloseRequests(r)' <= CloseRequests(r)
                 /\ wavCalls'[r] = wavCalls[r]
                 /\ wavInput'[r] = wavInput[r]
                 /\ urls'[r] = urls[r]]_vars

\* ------------------------------------------------------------- C12
\* The priming send of session r was called and threw.
SendFailed(r) == sendCalls[r] > sentFrames[r]

\* C12: a request that passed the credential check has called connect exactly
\* once; at most one priming frame is sent, only on a session that has opened
\* and whose connect promise is fulfilled, and exactly one send was made once
\* the reaction onopen queued has run; after a rejected connect promise or a
\* failed send no frame is on the wire and the request is rejected.
C12_OneSessionOnePrimingFrame ==
    \A r \in Reqs :
        /\ (started[r] /\ ~KeyRejected(apiKey[r])) => connectCalls[r] = 1
        /\ connectCalls[r] <= 1
        /\ sendCalls[r] <= 1
        /\ sentFrames[r] <= sendCalls[r]
        /\ sendCalls[r] > 0 => (opened[r] /\ session[r] = "resolved")
        /\ (opened[r] /\ session[r] = "resolved" /\ sendQueued[r] = 0)
               => sendCalls[r] = 1
        /\ session[r] = "rejected" => (sendCalls[r] = 0 /\ promise[r] = "rejected")
        /\ SendFailed(r) => (sentFrames[r] = 0 /\ promise[r] = "rejected")

\* The priming frame was sent on an opened session and the request went on to
\* resolve.
C12_Witness ==
    /\ connectCalls[1] = 1
    /\ opened[1]
    /\ session[1] = "resolved"
    /\ sendCalls[1] = 1
    /\ sentFrames[1] = 1
    /\ promise[1] = "resolved"

\* ------------------------------------------------------------- C13
\* C13: every step that delivers a message carrying the turn-complete signal
\* makes one close request, no other step makes one, and a (validly encoded,
\* non-empty) chunk carried by that message is in the accumulator when the
\* request is made.
C13_TurnCompleteRequestsClose ==
    [][\A r \in Reqs :
          LET delivered == Len(inbox'[r]) = Len(inbox[r]) + 1
              message == inbox'[r][Len(inbox'[r])]
          IN  /\ (delivered /\ message.turnComplete)
                     => CloseRequests(r)' = CloseRequests(r) + 1
              /\ CloseRequests(r)' > CloseRequests(r)
                     => (delivered /\ message.turnComplete)
              /\ (/\ delivered
                  /\ message.turnComplete
                  /\ message.turn = "data"
                  /\ message.data # <<>>
                  /\ ValidBase64(message.data))
                     => audioChunks'[Acc(r)]
                            = Push(audioChunks[Acc(r)], decode(message.data))]_vars

\* ------------------------------------------------------------- C14
\* C14: the delivery of a message without an audio payload field changes no
\* accumulator and no request outcome, raises no error (no run of onmessage
\* ends in an exception), and makes a close request only if the message
\* carries the turn-complete signal.
C14_NoPayloadIsNoOp ==
    [][\A r \in Reqs :
          LET delivered == Len(inbox'[r]) = Len(inbox[r]) + 1
              message == inbox'[r][Len(inbox'[r])]
          IN  (delivered /\ message.turn # "data")
                  => /\ audioChunks' = audioChunks
                     /\ promise' = promise
                     /\ result' = result
                     /\ error' = error
                     /\ unhandled' = unhandled
                     /\ <<wavCalls, wavInput, urls>>' = <<wavCalls, wavInput, urls>>
                     /\ CloseRequests(r)' # CloseRequests(r)
                            => message.turnComplete]_vars

\* ------------------------------------------------------------- C15
\* The byte count stored low byte first at a byte offset counted from 0.
WideAt(bytes, offset) ==
    <<bytes[offset + 3] + 256 * bytes[offset + 4],
      bytes[offset + 1] + 256 * bytes[offset + 2]>>

\* The byte count is below 2^32.
FitsUint32(value) == value[1] < 65536

\* C15: when 36 + dataSize does not fit in an unsigned 32-bit integer pcmToWav
\* reports an error and emits no header, so an emitted header holds the true
\* 36 + dataSize at offset 4 and the true dataSize at offset 40.
C15_SizeOverflowGuarded ==
    pc = "pcmToWavHugeDone"
        => /\ ~FitsUint32(WideAdd(Wide(36), hugeSize))
                  => (wavError # "" /\ wavHeaderBytes = <<>>)
           /\ wavHeaderBytes # <<>>
                  => /\ WideAt(wavHeaderBytes, 4) = WideAdd(Wide(36), hugeSize)
                     /\ WideAt(wavHeaderBytes, 40) = hugeSize

\* ------------------------------------------------------------- C16
\* C16: at most one generation request is in flight; a step starts one only
\* when isGenerating is false and the text is not blank; isGenerating is true
\* exactly while a request is pending, so it is false again once the request
\* has settled, resolved or rejected.
C16_OneRequestInFlight ==
    /\ [](Len(awaiting) <= 1 /\ (isGenerating <=> Len(awaiting) = 1))
    /\ [][Len(awaiting') > Len(awaiting)
              => (~isGenerating /\ ~IsBlank(textToSpeak))]_vars
    /\ [][Len(awaiting') < Len(awaiting) => ~isGenerating']_vars

\* A request for the text " a" (not blank once trimmed) is pending.
C16_Witness ==
    /\ isGenerating
    /\ awaiting = <<<<32, 97>>>>
    /\ textToSpeak = <<32, 97>>

\* ------------------------------------------------------------- C17
\* C17: the error message and the generated audio URL are never both set.
C17_ErrorAndAudioExclusive == ~(uiError # <<>> /\ audioUrl # <<>>)

\* A request was rejected and its message is on display, with no audio.
C17_Witness ==
    /\ uiError = <<"Error generating audio: ", "noAudio">>
    /\ audioUrl = <<>>
    /\ ~isGenerating

\* ------------------------------------------------------------- C18
\* C18: whenever a generated audio URL is set, the analysis of the selected
\* file is complete.
C18_AudioImpliesAnalyzed == audioUrl # <<>> => (voiceAnalyzed /\ ~isAnalyzing)

\* ------------------------------------------------------------- C19
\* C19: no step selects a file while isAnalyzing is true, so at most one
\* analysis timer is pending (one exactly while isAnalyzing); isAnalyzing and
\* voiceAnalyzed are never true together; and every analysis is followed by a
\* state with isAnalyzing false and voiceAnalyzed true.
C19_AnalysisOneAtATimeAndFinishes ==
    /\ [][analysisTimers' > analysisTimers => ~isAnalyzing]_vars
    /\ [](analysisTimers <= 1 /\ (isAnalyzing <=> analysisTimers = 1))
    /\ []~(isAnalyzing /\ voiceAnalyzed)
    /\ (isAnalyzing ~> (~isAnalyzing /\ voiceAnalyzed))

\* The analysis of b.mov has finished and audio was generated afterwards.
C19_Witness ==
    /\ videoFile = "b.mov"
    /\ voiceAnalyzed
    /\ ~isAnalyzing
    /\ analysisTimers = 0
    /\ audioUrl # <<>>

====
